---------------------------- MODULE Spec2Model ----------------------------
(***************************************************************************)
(* A model of hamcal.py: three source parsers, the keyword classifier, the *)
(* dedup/partition aggregator and the iCalendar encoder.                   *)
(*                                                                         *)
(* Representation.  A Python str is a sequence of one-character strings.   *)
(* An instant (a timezone-aware datetime in UTC) is an integer number of   *)
(* hours since 1970-01-01T00:00Z; a date is a number of days since         *)
(* 1970-01-01.  None is the sentinel value None below.                     *)
(***************************************************************************)
EXTENDS Integers, Sequences, FiniteSets, TLC

VARIABLES
    pc,           \* position of the run
    now,          \* NOW_UTC, captured once per run
    budget,       \* source records the environment may still serve (< 0: no limit)
    r_wa,         \* response of the WA7BNM fetch
    r_contest,    \* response of the contest-page fetch
    r_page,       \* response of the latest hamfest page fetch
    all_events,   \* main: all_events
    failed,       \* sources whose ingest raised (main's except branches)
    page,         \* ingest_arrl_hamfests: page
    fetches,      \* hamfest pages fetched so far, in order
    hf_events,    \* ingest_arrl_hamfests: events (local list)
    hf_seen,      \* history: in-window rows seen on the pages served so far
    pool,         \* main: all_events after de-dupe
    cals,         \* main: cals
    written,      \* names of the calendar files written
    exit_status,  \* value returned by main
    ev,           \* the event a function under study works on
    ev0,          \* that event before the function was applied
    ics,          \* text produced by build_ics
    got,          \* fields read back from ics
    yr,           \* fourth_full_weekend_saturday_of_june: year
    dd,           \* fourth_full_weekend_saturday_of_june: d.day
    h,            \* strip_html: h
    pieces        \* the pieces of markup and text the page given to strip_html is made of

mainVars == <<now, budget, r_wa, r_contest, r_page, all_events, failed, page,
              fetches, hf_events, hf_seen, pool, cals, written, exit_status>>
htmlVars == <<h, pieces>>
fnVars == <<ev, ev0, ics, got, yr, dd, htmlVars>>
vars == <<pc, mainVars, fnVars>>

-----------------------------------------------------------------------------
(* Bounds of the model *)

MaxRecords == 2      \* records (blocks, lines, rows) served in one run
MaxPageLines == 2    \* lines on one hamfest page
MaxHfEvents == 2     \* in-window hamfest events accumulated by one ingest
MaxEvents == 3       \* length of an event list handed to the aggregator
MaxFrags == 2        \* text fragments in a title or description
MaxLen == 3          \* characters in a title or link of the round trip
YearLo == 1990       \* first year of the Field Day study
YearHi == 2050       \* last year of the Field Day study
MaxPieces == 3       \* pieces of markup and text in a page given to strip_html
MaxUidEvents == 2    \* length of an event list of the identity study

-----------------------------------------------------------------------------
(* Python values *)

None == <<"<None>">>

Truthy(x) == x # None /\ x # <<>>

Range(s) == {s[i] : i \in 1..Len(s)}

RECURSIVE Concat(_)
Concat(ss) == IF ss = <<>> THEN <<>> ELSE Head(ss) \o Concat(Tail(ss))

SeqsUpTo(S, n) == UNION {[1..k -> S] : k \in 0..n}

\* str.replace: left to right, non-overlapping
RECURSIVE Replace(_, _, _)
Replace(s, old, new) ==
    IF Len(s) < Len(old) THEN s
    ELSE IF SubSeq(s, 1, Len(old)) = old
         THEN new \o Replace(SubSeq(s, Len(old) + 1, Len(s)), old, new)
         ELSE <<Head(s)>> \o Replace(Tail(s), old, new)

Whitespace == {" ", "\t", "\n", "\r", "\f"}

RECURSIVE LStrip(_)
LStrip(s) == IF s # <<>> /\ Head(s) \in Whitespace THEN LStrip(Tail(s)) ELSE s

RECURSIVE RStrip(_)
RStrip(s) ==
    IF s # <<>> /\ s[Len(s)] \in Whitespace
    THEN RStrip(SubSeq(s, 1, Len(s) - 1)) ELSE s

Strip(s) == RStrip(LStrip(s))

\* `k in blob`
Contains(blob, k) ==
    \E i \in 1..(Len(blob) - Len(k) + 1) : SubSeq(blob, i, i + Len(k) - 1) = k

Lower == <<"a","b","c","d","e","f","g","h","i","j","k","l","m",
           "n","o","p","q","r","s","t","u","v","w","x","y","z">>
Caps  == <<"A","B","C","D","E","F","G","H","I","J","K","L","M",
           "N","O","P","Q","R","S","T","U","V","W","X","Y","Z">>

UpperChar(c) ==
    IF \E i \in 1..Len(Lower) : Lower[i] = c
    THEN Caps[CHOOSE i \in 1..Len(Lower) : Lower[i] = c]
    ELSE c

\* str.upper
Upper(s) == [i \in 1..Len(s) |-> UpperChar(s[i])]

-----------------------------------------------------------------------------
(* Dates and instants *)

IsLeap(y) == (y % 4 = 0 /\ y % 100 # 0) \/ y % 400 = 0

DaysInMonth(y, m) ==
    IF m = 2 THEN (IF IsLeap(y) THEN 29 ELSE 28)
    ELSE IF m \in {4, 6, 9, 11} THEN 30 ELSE 31

\* date(y, m, d) as days since 1970-01-01 (proleptic Gregorian)
DaysFromCivil(y, m, d) ==
    LET yy  == IF m <= 2 THEN y - 1 ELSE y
        era == yy \div 400
        yoe == yy - era * 400
        mp  == IF m > 2 THEN m - 3 ELSE m + 9
        doy == (153 * mp + 2) \div 5 + d - 1
        doe == yoe * 365 + yoe \div 4 - yoe \div 100 + doy
    IN  era * 146097 + doe - 719468

\* the (year, month, day) of a day number
CivilFromDays(z0) ==
    LET z   == z0 + 719468
        era == z \div 146097
        doe == z - era * 146097
        yoe == (doe - doe \div 1460 + doe \div 36524 - doe \div 146096) \div 365
        doy == doe - (365 * yoe + yoe \div 4 - yoe \div 100)
        mp  == (5 * doy + 2) \div 153
        d   == doy - (153 * mp + 2) \div 5 + 1
        m   == IF mp < 10 THEN mp + 3 ELSE mp - 9
        y   == yoe + era * 400 + (IF m <= 2 THEN 1 ELSE 0)
    IN  [y |-> y, m |-> m, d |-> d]

\* a weekday numbering with Sunday = 0 .. Saturday = 6
Weekday_sunday0(days) == (days + 4) % 7

\* date.weekday(): Monday = 0 .. Sunday = 6
Weekday(days) == (days + 3) % 7

\* datetime(y, m, d, 0, 0, tzinfo=utc)
Midnight(days) == 24 * days

\* datetime.date() of a UTC instant
DateOf(t) == t \div 24

\* datetime.year of a UTC instant
YearOf(t) == CivilFromDays(DateOf(t)).y

LOOKAHEAD_DAYS == 62

\* HORIZON_END_UTC = NOW_UTC + timedelta(days=62)
HORIZON_END_UTC(n) == n + 24 * LOOKAHEAD_DAYS


Digit(k) == <<"0","1","2","3","4","5","6","7","8","9">>[k + 1]

\* a number zero-padded to two / four digits (strftime)
Pad2(k) == <<Digit((k \div 10) % 10), Digit(k % 10)>>
Pad4(k) == <<Digit((k \div 1000) % 10), Digit((k \div 100) % 10)>> \o Pad2(k)

\* datetime.isoformat() of a UTC instant: YYYY-MM-DDTHH:MM:SS+00:00
IsoFormat(t) ==
    LET c == CivilFromDays(DateOf(t))
    IN  Pad4(c.y) \o <<"-">> \o Pad2(c.m) \o <<"-">> \o Pad2(c.d) \o <<"T">>
        \o Pad2(t % 24) \o <<":","0","0",":","0","0","+","0","0",":","0","0">>

-----------------------------------------------------------------------------
(* Constants of the program *)

S_WA == <<"w","a","7","b","n","m","-","g","c","a","l">>
S_CONTEST == <<"a","r","r","l","-","c","o","n","t","e","s","t">>
S_FIELD_DAY == <<"a","r","r","l","-","f","i","e","l","d","-","d","a","y">>
S_HAMFEST == <<"a","r","r","l","-","h","a","m","f","e","s","t">>

L_contest == <<"c","o","n","t","e","s","t">>
L_hamfest == <<"h","a","m","f","e","s","t">>
L_field_day == <<"f","i","e","l","d","-","d","a","y">>
L_cw == <<"c","w">>
L_phone == <<"p","h","o","n","e">>
L_digital == <<"d","i","g","i","t","a","l">>

ARRL_CONTEST_CAL_URL ==
    <<"h","t","t","p","s",":","/","/","w","w","w",".","a","r","r","l",".","o","r","g",
      "/","c","o","n","t","e","s","t","-","c","a","l","e","n","d","a","r">>
FIELD_DAY_URL ==
    <<"h","t","t","p","s",":","/","/","w","w","w",".","a","r","r","l",".","o","r","g",
      "/","f","i","e","l","d","-","d","a","y">>
HAMFEST_URL ==
    <<"h","t","t","p","s",":","/","/","w","w","w",".","a","r","r","l",".","o","r","g",
      "/","h","a","m","f","e","s","t","s","/","s","e","a","r","c","h">>

T_Contest == <<"C","o","n","t","e","s","t">>
T_ARRL_prefix == <<"A","R","R","L",":"," ">>
T_Hamfest_prefix == <<"H","a","m","f","e","s","t",":"," ">>
T_ARRL_Field_Day == <<"A","R","R","L"," ","F","i","e","l","d"," ","D","a","y">>
T_FD_description ==
    <<"C","o","m","p","u","t","e","d"," ","a","s"," ","t","h","e"," ","4","t","h"," ",
      "f","u","l","l"," ","w","e","e","k","e","n","d"," ","o","f"," ","J","u","n","e"," ",
      "(","S","a","t","-","S","u","n",")",".">>

CW_KEYWORDS == {<<"C","W">>}
PHONE_KEYWORDS == {<<"S","S","B">>, <<"P","H","O","N","E">>, <<"A","M">>, <<"F","M">>}
DIGITAL_KEYWORDS ==
    {<<"R","T","T","Y">>, <<"F","T","8">>, <<"F","T","4">>, <<"P","S","K">>,
     <<"D","I","G","I">>, <<"D","I","G","I","T","A","L">>, <<"S","S","T","V">>,
     <<"J","S","8">>, <<"M","F","S","K">>}
FIELD_DAY_KEYWORDS == {<<"F","I","E","L","D"," ","D","A","Y">>}

max_pages == 12

-----------------------------------------------------------------------------
(* Event *)

Event(title, start, end, url, description, source) ==
    [title |-> title, start |-> start, end |-> end, url |-> url,
     description |-> description, categories |-> <<>>, source |-> source]

\* is_in_window with the boundary instants admitted
is_in_window_closed(e, n) == (e.end >= n) /\ (e.start <= HORIZON_END_UTC(n))

\* Event.is_in_window, with NOW_UTC = n
is_in_window(e, n) == (e.end > n) /\ (e.start < HORIZON_END_UTC(n))

\* Event.add_category
add_category(e, c) ==
    IF c \in Range(e.categories) THEN e
    ELSE [e EXCEPT !.categories = Append(@, c)]

-----------------------------------------------------------------------------
(* Tagging *)

\* the text of title and description as written, without .upper()
Blob_as_written(e) ==
    e.title \o <<" ">> \o (IF Truthy(e.description) THEN e.description ELSE <<>>)

\* (e.title + " " + (e.description or "")).upper()
Blob(e) ==
    Upper(e.title \o <<" ">> \o (IF Truthy(e.description) THEN e.description ELSE <<>>))

\* any(k in blob for k in keywords)
AnyKeyword(blob, keywords) == \E k \in keywords : Contains(blob, k)

tag_modes(e) ==
    LET blob == Blob(e)
        e1 == IF AnyKeyword(blob, CW_KEYWORDS) THEN add_category(e, L_cw) ELSE e
        e2 == IF AnyKeyword(blob, PHONE_KEYWORDS) THEN add_category(e1, L_phone) ELSE e1
    IN  IF AnyKeyword(blob, DIGITAL_KEYWORDS) THEN add_category(e2, L_digital) ELSE e2

tag_field_day(e) ==
    IF AnyKeyword(Blob(e), FIELD_DAY_KEYWORDS) THEN add_category(e, L_field_day) ELSE e

-----------------------------------------------------------------------------
(* ICS text helpers *)

\* ics_escape
ics_escape(text) ==
    Replace(Replace(Replace(Replace(text,
        <<"\\">>, <<"\\","\\">>),
        <<"\n">>, <<"\\","n">>),
        <<",">>, <<"\\",",">>),
        <<";">>, <<"\\",";">>)

\* unfold_ics_text
unfold_ics_text(value) ==
    IF value = None THEN <<>>
    ELSE Strip(Replace(Replace(Replace(Replace(value,
             <<"\\","n">>, <<"\n">>),
             <<"\\",",">>, <<",">>),
             <<"\\",";">>, <<";">>),
             <<"\\","\\">>, <<"\\">>))

-----------------------------------------------------------------------------
(* Date tokens: the text a date pattern matched.  kind "date" is a token of *)
(* digits only (\d{8}, \d{4}-\d{2}-\d{2}, \d{2}/\d{2}/\d{4}); "datetime" is *)
(* any other DTSTART/DTEND value; "none" is no match.                       *)

NoTok == [kind |-> "none", y |-> 0, m |-> 0, d |-> 0, h |-> 0, naive |-> TRUE, off |-> 0]

TokDate(days) ==
    LET c == CivilFromDays(days)
    IN  [kind |-> "date", y |-> c.y, m |-> c.m, d |-> c.d, h |-> 0,
         naive |-> TRUE, off |-> 0]

\* a date-time value with offset off that denotes the UTC instant t
TokDateTime(t, naive, off) ==
    LET c == CivilFromDays(DateOf(t + off))
    IN  [kind |-> "datetime", y |-> c.y, m |-> c.m, d |-> c.d, h |-> (t + off) % 24,
         naive |-> naive, off |-> off]

\* digits in the place of a date that name no day of the calendar
TokBadDate == [kind |-> "date", y |-> 2024, m |-> 13, d |-> 45, h |-> 0,
               naive |-> TRUE, off |-> 0]

\* whether strptime / dateutil accept the token (they raise ValueError otherwise)
ValidDate(tok) ==
    /\ tok.y >= 1
    /\ tok.m \in 1..12
    /\ tok.d \in 1..DaysInMonth(tok.y, tok.m)
    /\ tok.h \in 0..23

\* datetime.strptime(token, fmt).date()
strptime_date(tok) ==
    IF ValidDate(tok) THEN [ok |-> TRUE, days |-> DaysFromCivil(tok.y, tok.m, tok.d)]
    ELSE [ok |-> FALSE, days |-> 0]

\* parse_google_ics_datetime
parse_google_ics_datetime(tok) ==
    IF tok.kind = "date"
    THEN LET p == strptime_date(tok)
         IN  [ok |-> p.ok, t |-> Midnight(p.days)]
    ELSE IF ValidDate(tok)
         THEN [ok |-> TRUE,
               t |-> Midnight(DaysFromCivil(tok.y, tok.m, tok.d)) + tok.h
                     - (IF tok.naive THEN 0 ELSE tok.off)]
         ELSE [ok |-> FALSE, t |-> 0]

\* the outcome of a parser: it raised, or it returned events
Raised == [raised |-> TRUE, events |-> <<>>]
Returned(events) == [raised |-> FALSE, events |-> events]

-----------------------------------------------------------------------------
(* Ingest: WA7BNM.  A response body is the sequence of VEVENT blocks, each  *)
(* given by what extract_ics_field returns for the five fields.             *)

\* the body of the for loop of ingest_wa7bnm_gcal, for one block
wa_block(b, n) ==
    IF b.dtstart.kind = "none" THEN Returned(<<>>)
    ELSE LET s == parse_google_ics_datetime(b.dtstart)
             x == IF b.dtend.kind = "none" THEN [ok |-> TRUE, t |-> s.t + 1]
                  ELSE parse_google_ics_datetime(b.dtend)
             summary == IF Truthy(b.summary) THEN b.summary ELSE T_Contest
             e == Event(unfold_ics_text(summary), s.t, x.t,
                        IF Truthy(b.url) THEN unfold_ics_text(b.url) ELSE None,
                        IF Truthy(b.desc) THEN unfold_ics_text(b.desc) ELSE None,
                        S_WA)
             tagged == tag_field_day(tag_modes(add_category(e, L_contest)))
         IN  IF ~s.ok \/ ~x.ok THEN Raised
             ELSE IF is_in_window(tagged, n) THEN Returned(<<tagged>>)
             ELSE Returned(<<>>)

RECURSIVE wa_blocks(_, _)
wa_blocks(blocks, n) ==
    IF blocks = <<>> THEN Returned(<<>>)
    ELSE LET one == wa_block(Head(blocks), n)
         IN  IF one.raised THEN Raised
             ELSE LET rest == wa_blocks(Tail(blocks), n)
                  IN  IF rest.raised THEN Raised
                      ELSE Returned(one.events \o rest.events)

\* ingest_wa7bnm_gcal
ingest_wa7bnm_gcal(resp, n) ==
    IF resp.status # "200" THEN Raised ELSE wa_blocks(resp.body, n)

-----------------------------------------------------------------------------
(* Ingest: ARRL contest calendar and the Field Day rule.  A response body   *)
(* is the sequence of lines of strip_html(r.text).splitlines(), each with   *)
(* its text and the token \b(\d{4}-\d{2}-\d{2})\b matched in it.            *)

RECURSIVE first_saturday(_, _)
first_saturday(year, day) ==
    IF Weekday(DaysFromCivil(year, 6, day)) # 5
    THEN first_saturday(year, day + 1) ELSE day

\* fourth_full_weekend_saturday_of_june
fourth_full_weekend_saturday_of_june(year) ==
    DaysFromCivil(year, 6, first_saturday(year, 1)) + 7 * 3

\* the Event add_field_day_fixed builds for one year
field_day_event(year) ==
    LET start == Midnight(fourth_full_weekend_saturday_of_june(year))
        e == Event(T_ARRL_Field_Day, start, start + 24 * 2, FIELD_DAY_URL,
                   T_FD_description, S_FIELD_DAY)
    IN  tag_field_day(add_category(e, L_field_day))

\* add_field_day_fixed
add_field_day_fixed(n) ==
    SelectSeq(<<field_day_event(YearOf(n)), field_day_event(YearOf(n) + 1)>>,
              LAMBDA e : is_in_window(e, n))

\* the body of the for loop of ingest_arrl_contests, for one line
contest_line(l, n) ==
    LET line == Strip(l.text)
    IN  IF line = <<>> \/ l.tok.kind = "none" THEN Returned(<<>>)
        ELSE LET p == strptime_date(l.tok)
                 start == Midnight(p.days)
                 e == Event(T_ARRL_prefix \o line, start, start + 24,
                            ARRL_CONTEST_CAL_URL, None, S_CONTEST)
                 tagged == tag_field_day(tag_modes(add_category(e, L_contest)))
             IN  IF ~p.ok THEN Raised
                 ELSE IF is_in_window(tagged, n) THEN Returned(<<tagged>>)
                 ELSE Returned(<<>>)

RECURSIVE contest_lines(_, _)
contest_lines(lines, n) ==
    IF lines = <<>> THEN Returned(<<>>)
    ELSE LET one == contest_line(Head(lines), n)
         IN  IF one.raised THEN Raised
             ELSE LET rest == contest_lines(Tail(lines), n)
                  IN  IF rest.raised THEN Raised
                      ELSE Returned(one.events \o rest.events)

\* ingest_arrl_contests
ingest_arrl_contests(resp, n) ==
    IF resp.status # "200" THEN Raised
    ELSE LET scanned == contest_lines(resp.body, n)
         IN  IF scanned.raised THEN Raised
             ELSE Returned(scanned.events \o add_field_day_fixed(n))

-----------------------------------------------------------------------------
(* Ingest: ARRL hamfests.  A response body is the sequence of lines of the  *)
(* stripped page: a "row" matches HAMFEST_ROW_RE (token and title), a       *)
(* "token" line holds a \d{2}/\d{2}/\d{4} token outside any row, a "plain"  *)
(* line holds none.                                                         *)

\* the body of the for loop over the lines of one page, for one line
hamfest_line(l, n) ==
    IF l.kind # "row" THEN [raised |-> FALSE, events |-> <<>>, matched |-> 0]
    ELSE LET p == strptime_date(l.tok)
             start == Midnight(p.days)
             e == add_category(
                      Event(T_Hamfest_prefix \o Strip(l.title), start, start + 24,
                            HAMFEST_URL, None, S_HAMFEST),
                      L_hamfest)
         IN  IF ~p.ok THEN [raised |-> TRUE, events |-> <<>>, matched |-> 0]
             ELSE [raised |-> FALSE,
                   events |-> IF is_in_window(e, n) THEN <<e>> ELSE <<>>,
                   matched |-> 1]

\* the for loop over the lines of one page: events appended and page_events
RECURSIVE hamfest_lines(_, _)
hamfest_lines(lines, n) ==
    IF lines = <<>> THEN [raised |-> FALSE, events |-> <<>>, matched |-> 0]
    ELSE LET one == hamfest_line(Head(lines), n)
         IN  IF one.raised THEN one
             ELSE LET rest == hamfest_lines(Tail(lines), n)
                  IN  IF rest.raised THEN rest
                      ELSE [raised |-> FALSE,
                            events |-> one.events \o rest.events,
                            matched |-> one.matched + rest.matched]

\* the tokens re.finditer(r"(\d{2}/\d{2}/\d{4})", text) yields, in order
page_tokens(lines) ==
    LET withTok == SelectSeq(lines, LAMBDA l : l.kind # "plain")
    IN  [i \in 1..Len(withTok) |-> withTok[i].tok]

\* any_event_date_in_text_after: "true", "false", or "raise" (ValueError)
RECURSIVE any_event_date_in_text_after(_, _)
any_event_date_in_text_after(tokens, cutoff) ==
    IF tokens = <<>> THEN "false"
    ELSE LET p == strptime_date(Head(tokens))
         IN  IF ~p.ok THEN "raise"
             ELSE IF p.days > cutoff THEN "true"
             ELSE any_event_date_in_text_after(Tail(tokens), cutoff)

\* one iteration of the while loop of ingest_arrl_hamfests on page p, with
\* the events list so far: the exception, or the list and whether to break
hamfest_page(resp, n, p, events) ==
    IF resp.status = "404" THEN [raised |-> FALSE, stop |-> TRUE, events |-> events]
    ELSE IF resp.status # "200" THEN [raised |-> TRUE, stop |-> TRUE, events |-> events]
    ELSE LET rows == hamfest_lines(resp.body, n)
             after == IF p >= 2
                      THEN any_event_date_in_text_after(page_tokens(resp.body),
                                                        DateOf(HORIZON_END_UTC(n)))
                      ELSE "false"
         IN  IF rows.raised THEN [raised |-> TRUE, stop |-> TRUE, events |-> events]
             ELSE IF rows.matched = 0
                  THEN [raised |-> FALSE, stop |-> TRUE, events |-> events \o rows.events]
             ELSE IF after = "raise"
                  THEN [raised |-> TRUE, stop |-> TRUE, events |-> events]
             ELSE [raised |-> FALSE, stop |-> (after = "true"),
                   events |-> events \o rows.events]

-----------------------------------------------------------------------------
(* Aggregation *)

\* a dict insert that keeps the value already stored under the key
dedup_put_keep_first(d, e) ==
    IF \E i \in 1..Len(d) :
          <<d[i].title, IsoFormat(d[i].start), d[i].source>>
              = <<e.title, IsoFormat(e.start), e.source>>
    THEN d
    ELSE Append(d, e)

\* key = (e.title, e.start.isoformat(), e.source)
dedup_key(e) == <<e.title, IsoFormat(e.start), e.source>>

\* dedup[key] = e on a dict kept as the sequence of its values, in the order
\* the keys were first inserted
dedup_put(d, e) ==
    IF \E i \in 1..Len(d) : dedup_key(d[i]) = dedup_key(e)
    THEN [i \in 1..Len(d) |-> IF dedup_key(d[i]) = dedup_key(e) THEN e ELSE d[i]]
    ELSE Append(d, e)

\* the de-dupe loop of main followed by list(dedup.values())
RECURSIVE dedup_loop(_, _)
dedup_loop(d, events) ==
    IF events = <<>> THEN d
    ELSE dedup_loop(dedup_put(d, Head(events)), Tail(events))

Dedup(events) == dedup_loop(<<>>, events)

Has(e, c) == c \in Range(e.categories)

CalendarNames == {"all", "cw", "phone", "digital", "hamfests", "field-day"}

\* split_calendars with the mode sets filled from the mode label alone
split_calendars_mode_only(events) ==
    [name \in {"all", "cw", "phone", "digital", "hamfests", "field-day"} |->
        CASE name = "all"       -> events
          [] name = "hamfests"  ->
                 SelectSeq(events, LAMBDA e : L_hamfest \in Range(e.categories))
          [] name = "field-day" ->
                 SelectSeq(events, LAMBDA e : L_field_day \in Range(e.categories))
          [] name = "cw"        ->
                 SelectSeq(events, LAMBDA e : L_cw \in Range(e.categories))
          [] name = "phone"     ->
                 SelectSeq(events, LAMBDA e : L_phone \in Range(e.categories))
          [] name = "digital"   ->
                 SelectSeq(events, LAMBDA e : L_digital \in Range(e.categories))]

\* split_calendars
split_calendars(events) ==
    [name \in CalendarNames |->
        CASE name = "all"       -> events
          [] name = "hamfests"  -> SelectSeq(events, LAMBDA e : Has(e, L_hamfest))
          [] name = "field-day" -> SelectSeq(events, LAMBDA e : Has(e, L_field_day))
          [] name = "cw"        ->
                 SelectSeq(events, LAMBDA e : Has(e, L_contest) /\ Has(e, L_cw))
          [] name = "phone"     ->
                 SelectSeq(events, LAMBDA e : Has(e, L_contest) /\ Has(e, L_phone))
          [] name = "digital"   ->
                 SelectSeq(events, LAMBDA e : Has(e, L_contest) /\ Has(e, L_digital))]

\* sorted(events, key=lambda e: e.start): a stable insertion sort
RECURSIVE sorted_by_start(_)
sorted_by_start(events) ==
    IF events = <<>> THEN <<>>
    ELSE LET init == sorted_by_start(SubSeq(events, 1, Len(events) - 1))
             e == events[Len(events)]
             k == Cardinality({i \in 1..Len(init) : init[i].start <= e.start})
         IN  SubSeq(init, 1, k) \o <<e>> \o SubSeq(init, k + 1, Len(init))

-----------------------------------------------------------------------------
(* The environment: what the fetches may return *)

x_cw == <<"c","w">>
x_ssb == <<"s","s","b">>
x_fd == <<"F","i","e","l","d"," ","D","a","y">>
x_u == <<"u">>
x_x == <<"x">>
x_escaped == <<"a","\\",","," ","F","T","8">>

\* the instants a run may start at: Field Day 2024 (June 22 to 24) ending
\* exactly now, starting exactly at the horizon, and inside the window of a
\* run that does not start at midnight
Nows ==
    {Midnight(DaysFromCivil(2024, 6, 24)), Midnight(DaysFromCivil(2024, 4, 21)),
     Midnight(DaysFromCivil(2024, 6, 10)) + 7}

NoResp == [status |-> "none", body |-> <<>>]

FailureStatuses == {"500", "neterr"}

WaBlock(dtstart, dtend, summary, url, desc) ==
    [dtstart |-> dtstart, dtend |-> dtend, summary |-> summary, url |-> url,
     desc |-> desc]

WaBlocks(n) ==
    {WaBlock(TokDateTime(n + 24, FALSE, 0), NoTok, x_cw, None, None),
     WaBlock(TokDateTime(n + 24, FALSE, 0), TokDateTime(n + 48, TRUE, 0),
             x_cw, x_u, x_ssb),
     WaBlock(TokDateTime(n - 1, FALSE, 0), TokDateTime(n, FALSE, 0), None, None, None),
     WaBlock(TokDateTime(HORIZON_END_UTC(n), FALSE, 0), NoTok, None, None, None),
     WaBlock(TokDateTime(HORIZON_END_UTC(n) - 1, FALSE, 0 - 5), NoTok,
             x_escaped, None, None),
     WaBlock(TokDate(DateOf(n)), NoTok, x_fd, None, None),
     WaBlock(TokBadDate, NoTok, x_cw, None, None),
     WaBlock(NoTok, NoTok, x_cw, None, None)}

WaResponses(n, b) ==
    {[status |-> s, body |-> <<>>] : s \in FailureStatuses}
    \cup {[status |-> "200", body |-> bs] : bs \in SeqsUpTo(WaBlocks(n), b)}

\* the text of a \d{4}-\d{2}-\d{2} token
IsoDate(tok) == Pad4(tok.y) \o <<"-">> \o Pad2(tok.m) \o <<"-">> \o Pad2(tok.d)

ContestLine(words, tok) == [text |-> words \o <<" ">> \o IsoDate(tok), tok |-> tok]

ContestLines(n) ==
    {ContestLine(x_cw, TokDate(DateOf(n) + 1)),
     ContestLine(x_fd, TokDate(DateOf(n) - 1)),
     ContestLine(x_x, TokDate(DateOf(HORIZON_END_UTC(n)))),
     ContestLine(x_cw, TokBadDate),
     [text |-> x_fd, tok |-> NoTok]}

ContestResponses(n, b) ==
    {[status |-> s, body |-> <<>>] : s \in FailureStatuses}
    \cup {[status |-> "200", body |-> ls] : ls \in SeqsUpTo(ContestLines(n), b)}

HamfestRow(tok, title) == [kind |-> "row", tok |-> tok, title |-> title]

HamfestLines(n) ==
    {HamfestRow(TokDate(DateOf(n)), x_cw),
     HamfestRow(TokDate(DateOf(n) - 1), x_x),
     HamfestRow(TokDate(DateOf(HORIZON_END_UTC(n))), x_x),
     HamfestRow(TokDate(DateOf(HORIZON_END_UTC(n)) + 1), x_x),
     HamfestRow(TokBadDate, x_x),
     [kind |-> "token", tok |-> TokDate(DateOf(HORIZON_END_UTC(n)) + 1), title |-> <<>>],
     [kind |-> "token", tok |-> TokBadDate, title |-> <<>>],
     [kind |-> "plain", tok |-> NoTok, title |-> <<>>]}

Min(a, b) == IF a < b THEN a ELSE b

Unlimited == 0 - 1

\* the budget left after k records were served
Spend(b, k) == IF b = Unlimited THEN b ELSE b - k

PageResponses(n, b) ==
    {[status |-> s, body |-> <<>>] : s \in FailureStatuses \cup {"404"}}
    \cup {[status |-> "200", body |-> ls] :
            ls \in SeqsUpTo(HamfestLines(n),
                            IF b = Unlimited THEN MaxPageLines
                            ELSE Min(MaxPageLines, b))}

\* the events of the rows of a served page that parse and are in the window
RECURSIVE rows_in_window(_, _)
rows_in_window(lines, n) ==
    IF lines = <<>> THEN <<>>
    ELSE (IF hamfest_line(Head(lines), n).raised THEN <<>>
          ELSE hamfest_line(Head(lines), n).events)
         \o rows_in_window(Tail(lines), n)

-----------------------------------------------------------------------------
(* main *)

NoValue == <<>>

FnIdle ==
    /\ ev = NoValue /\ ev0 = NoValue /\ ics = NoValue /\ got = NoValue
    /\ h = NoValue /\ pieces = NoValue
    /\ yr = 0 /\ dd = 0

Init ==
    /\ pc = "wa"
    /\ now \in Nows
    /\ budget = MaxRecords
    /\ r_wa = NoResp /\ r_contest = NoResp /\ r_page = NoResp
    /\ all_events = <<>>
    /\ failed = {}
    /\ page = 1
    /\ fetches = <<>>
    /\ hf_events = <<>>
    /\ hf_seen = <<>>
    /\ pool = <<>>
    /\ cals = [name \in CalendarNames |-> <<>>]
    /\ written = <<>>
    /\ exit_status = 0 - 1
    /\ FnIdle

\* try: x = ingest(); all_events.extend(x) / except: the list after the step
main_extend(events, res) == IF res.raised THEN events ELSE events \o res.events

\* main, step 1: try ingest_wa7bnm_gcal / except
IngestWA ==
    /\ pc = "wa"
    /\ \E resp \in WaResponses(now, budget) :
          LET res == ingest_wa7bnm_gcal(resp, now)
          IN  /\ r_wa' = resp
              /\ budget' = Spend(budget, Len(resp.body))
              /\ all_events' = main_extend(all_events, res)
              /\ failed' = IF res.raised THEN failed \cup {"wa"} ELSE failed
    /\ pc' = "contests"
    /\ UNCHANGED <<now, r_contest, r_page, page, fetches, hf_events, hf_seen,
                   pool, cals, written, exit_status, fnVars>>

\* main, step 2: try ingest_arrl_contests / except
IngestContests ==
    /\ pc = "contests"
    /\ \E resp \in ContestResponses(now, budget) :
          LET res == ingest_arrl_contests(resp, now)
          IN  /\ r_contest' = resp
              /\ budget' = Spend(budget, Len(resp.body))
              /\ all_events' = main_extend(all_events, res)
              /\ failed' = IF res.raised THEN failed \cup {"contests"} ELSE failed
    /\ pc' = "hamfests"
    /\ UNCHANGED <<now, r_wa, r_page, page, fetches, hf_events, hf_seen,
                   pool, cals, written, exit_status, fnVars>>

\* main, step 3: one iteration of the while loop of ingest_arrl_hamfests;
\* the iteration that ends the loop also returns to main (try / except)
HamfestPage ==
    /\ pc = "hamfests"
    /\ page <= max_pages
    /\ \E resp \in PageResponses(now, budget) :
          LET out == hamfest_page(resp, now, page, hf_events)
              last == out.raised \/ out.stop \/ page + 1 > max_pages
          IN  /\ Len(out.events) <= MaxHfEvents
              /\ r_page' = resp
              /\ budget' = Spend(budget, Len(resp.body))
              /\ fetches' = Append(fetches, page)
              /\ hf_seen' = hf_seen \o rows_in_window(resp.body, now)
              /\ hf_events' = out.events
              /\ page' = IF out.raised \/ out.stop THEN page ELSE page + 1
              /\ all_events' = IF last
                               THEN main_extend(all_events,
                                        [raised |-> out.raised, events |-> out.events])
                               ELSE all_events
              /\ failed' = IF out.raised THEN failed \cup {"hamfests"} ELSE failed
              /\ pc' = IF last THEN "dedup" ELSE "hamfests"
    /\ UNCHANGED <<now, r_wa, r_contest, pool, cals, written, exit_status, fnVars>>

\* main: de-dupe
DedupStep ==
    /\ pc = "dedup"
    /\ pool' = Dedup(all_events)
    /\ pc' = "split"
    /\ UNCHANGED <<now, budget, r_wa, r_contest, r_page, all_events, failed, page,
                   fetches, hf_events, hf_seen, cals, written, exit_status, fnVars>>

\* main: cals = split_calendars(all_events)
SplitStep ==
    /\ pc = "split"
    /\ cals' = split_calendars(pool)
    /\ pc' = "write"
    /\ UNCHANGED <<now, budget, r_wa, r_contest, r_page, all_events, failed, page,
                   fetches, hf_events, hf_seen, pool, written, exit_status, fnVars>>

\* main: the six write_file(build_ics(...)) calls and return 0; written keeps
\* for each file the events in the order build_ics emits them
WriteStep ==
    /\ pc = "write"
    /\ written' = [name \in CalendarNames |-> sorted_by_start(cals[name])]
    /\ exit_status' = 0
    /\ pc' = "done"
    /\ UNCHANGED <<now, budget, r_wa, r_contest, r_page, all_events, failed, page,
                   fetches, hf_events, hf_seen, pool, cals, fnVars>>

Next ==
    \/ IngestWA
    \/ IngestContests
    \/ HamfestPage
    \/ DedupStep
    \/ SplitStep
    \/ WriteStep

Spec == Init /\ [][Next]_vars

\* the hamfest ingest alone, from the point main reaches it after both
\* earlier fetches failed, with no limit on the records served
InitHamfest ==
    /\ pc = "hamfests"
    /\ now \in Nows
    /\ budget = Unlimited
    /\ r_wa = [status |-> "neterr", body |-> <<>>]
    /\ r_contest = [status |-> "neterr", body |-> <<>>]
    /\ r_page = NoResp
    /\ all_events = <<>>
    /\ failed = {"wa", "contests"}
    /\ page = 1
    /\ fetches = <<>>
    /\ hf_events = <<>>
    /\ hf_seen = <<>>
    /\ pool = <<>>
    /\ cals = [name \in CalendarNames |-> <<>>]
    /\ written = <<>>
    /\ exit_status = 0 - 1
    /\ FnIdle

NextHamfest ==
    \/ HamfestPage
    \/ DedupStep
    \/ SplitStep
    \/ WriteStep

SpecHamfest == InitHamfest /\ [][NextHamfest]_vars

-----------------------------------------------------------------------------
(* What the served texts hold *)

\* the events of the blocks of the served feed that parse and are in the window
RECURSIVE wa_served(_, _)
wa_served(blocks, n) ==
    IF blocks = <<>> THEN <<>>
    ELSE (IF wa_block(Head(blocks), n).raised THEN <<>>
          ELSE wa_block(Head(blocks), n).events)
         \o wa_served(Tail(blocks), n)

\* the events of the lines of the served contest page that parse and are in
\* the window
RECURSIVE contest_served(_, _)
contest_served(lines, n) ==
    IF lines = <<>> THEN <<>>
    ELSE (IF contest_line(Head(lines), n).raised THEN <<>>
          ELSE contest_line(Head(lines), n).events)
         \o contest_served(Tail(lines), n)

\* the ingest step of main that produces events of a source
StepOf(source) ==
    IF source = S_WA THEN "wa"
    ELSE IF source = S_HAMFEST THEN "hamfests"
    ELSE "contests"

WaHasBadDate ==
    \E i \in 1..Len(r_wa.body) : wa_block(r_wa.body[i], now).raised
ContestHasBadDate ==
    \E i \in 1..Len(r_contest.body) : contest_line(r_contest.body[i], now).raised
PageHasBadRow ==
    \E i \in 1..Len(r_page.body) : hamfest_line(r_page.body[i], now).raised

OutputSets == {cals[name] : name \in CalendarNames}
               \cup {written[name] : name \in DOMAIN written}

-----------------------------------------------------------------------------
(* C1: every event of the six output sets, whichever parser produced it,   *)
(* ends strictly after now and starts strictly before now + 62 days.       *)
C1_OutputsStrictlyInWindow ==
    \A out \in OutputSets : \A i \in 1..Len(out) :
        out[i].end > now /\ out[i].start < now + 24 * 62

\* a finished run, Field Day ending exactly as it starts, that was served a
\* contest line starting exactly at the horizon and one block in the window,
\* and emitted that block's event only
C1_Witness ==
    /\ pc = "done"
    /\ \E i \in 1..Len(r_contest.body) :
          /\ r_contest.body[i].tok.kind = "date"
          /\ strptime_date(r_contest.body[i].tok).ok
          /\ Midnight(strptime_date(r_contest.body[i].tok).days) = now + 24 * 62
    /\ field_day_event(YearOf(now)).end = now
    /\ Len(written["all"]) = 1
    /\ written["all"][1].source = S_WA

-----------------------------------------------------------------------------
\* the sources whose fetch failed: a network error or a non-2xx status
FetchFailed ==
    (IF r_wa.status \in FailureStatuses THEN {"wa"} ELSE {})
    \cup (IF r_contest.status \in FailureStatuses THEN {"contests"} ELSE {})
    \cup (IF r_page.status \in FailureStatuses THEN {"hamfests"} ELSE {})

(* C4: whatever sources fail, the run attempts all three ingests, writes    *)
(* the six calendars and returns 0; the merged list holds nothing of a      *)
(* failed source and every in-window event of the others, and each of them  *)
(* keeps its key in the deduplicated pool.                                  *)
C4_FailureIsolation ==
    pc = "done" =>
        /\ exit_status = 0
        /\ DOMAIN written = CalendarNames
        /\ r_wa.status # "none" /\ r_contest.status # "none" /\ Len(fetches) >= 1
        /\ all_events =
              (IF "wa" \in FetchFailed THEN <<>> ELSE wa_served(r_wa.body, now))
              \o (IF "contests" \in FetchFailed THEN <<>>
                  ELSE contest_served(r_contest.body, now) \o add_field_day_fixed(now))
              \o (IF "hamfests" \in FetchFailed THEN <<>> ELSE hf_seen)
        /\ \A i \in 1..Len(pool) : StepOf(pool[i].source) \notin FetchFailed
        /\ \A i \in 1..Len(all_events) : \E j \in 1..Len(pool) :
              dedup_key(pool[j]) = dedup_key(all_events[i])

-----------------------------------------------------------------------------
(* C5: in each parser a record whose date token cannot be parsed is skipped *)
(* silently: the parser does not raise and the other well-formed in-window  *)
(* records of the same text are returned.                                   *)
C5_BadDateSkipped ==
    /\ (r_wa.status = "200" /\ WaHasBadDate) =>
          /\ "wa" \notin failed
          /\ \A e \in Range(wa_served(r_wa.body, now)) : e \in Range(all_events)
    /\ (r_contest.status = "200" /\ ContestHasBadDate) =>
          /\ "contests" \notin failed
          /\ \A e \in Range(contest_served(r_contest.body, now)) :
                e \in Range(all_events)
    /\ (r_page.status = "200" /\ PageHasBadRow) =>
          /\ "hamfests" \notin failed
          /\ pc \notin {"wa", "contests", "hamfests"} =>
                \A e \in Range(hf_seen) : e \in Range(all_events)

-----------------------------------------------------------------------------
(* C8: once the contest-page parser has run, whatever the fetch returned,   *)
(* the Field Day of the current or next year that is in the window is among *)
(* the events it contributed, labelled "field-day".                         *)
C8_FieldDayUnconditional ==
    pc \notin {"wa", "contests"} =>
        \A y \in {YearOf(now), YearOf(now) + 1} :
            is_in_window(field_day_event(y), now) =>
                \E i \in 1..Len(all_events) :
                    /\ all_events[i] = field_day_event(y)
                    /\ Has(all_events[i], L_field_day)

-----------------------------------------------------------------------------
(* C7: hamfest pages are fetched in order 1, 2, 3, ..., never more than 12; *)
(* after page p the page p + 1 is fetched iff p < 12, page p was not "not   *)
(* found", it had at least one matched row, and p = 1 or no date token on   *)
(* it is strictly after the horizon-end date; a "not found" page adds no    *)
(* event, a page that stops the loop is fully processed, and the loop ends. *)

\* rows of a page that HAMFEST_ROW_RE matches
MatchedRows(lines) == Cardinality({i \in 1..Len(lines) : lines[i].kind = "row"})

\* some date token of the page is strictly after the horizon-end date
TokenAfterCutoff(lines, n) ==
    \E i \in 1..Len(lines) :
        /\ lines[i].kind # "plain"
        /\ ValidDate(lines[i].tok)
        /\ DaysFromCivil(lines[i].tok.y, lines[i].tok.m, lines[i].tok.d)
               > DateOf(n + 24 * 62)

C7_Pagination ==
    /\ fetches = [i \in 1..Len(fetches) |-> i]
    /\ Len(fetches) <= 12
    /\ pc = "hamfests" => page = Len(fetches) + 1 /\ page <= 12
    /\ fetches # <<>> =>
          LET p == Len(fetches)
          IN  (pc = "hamfests" /\ page = p + 1)
                  <=> /\ p < 12
                      /\ r_page.status # "404"
                      /\ MatchedRows(r_page.body) >= 1
                      /\ (p = 1 \/ ~TokenAfterCutoff(r_page.body, now))
    /\ "hamfests" \notin failed => hf_events = hf_seen
    /\ (pc \notin {"hamfests"} /\ "hamfests" \notin failed) =>
          all_events = hf_events

-----------------------------------------------------------------------------
(* The aggregator on any list of events: main from its de-dupe step on, the *)
(* list being any sequence over events that share or differ in each field.  *)

AggCategories(title, source, v) ==
    IF source = S_WA
    THEN (IF v = 1
          THEN (IF title = x_cw THEN <<L_contest, L_cw>> ELSE <<L_contest>>)
          ELSE (IF title = x_cw THEN <<L_contest, L_cw, L_phone>>
                ELSE <<L_contest, L_digital, L_field_day>>))
    ELSE (IF v = 1 THEN <<L_hamfest>>
          ELSE (IF title = x_cw THEN <<L_cw>> ELSE <<L_field_day, L_hamfest>>))

AggEvent(title, start, source, v) ==
    [title |-> title, start |-> start, end |-> start + v,
     url |-> IF v = 1 THEN None ELSE x_u,
     description |-> IF v = 1 THEN None ELSE x_ssb,
     categories |-> AggCategories(title, source, v), source |-> source]

AggNow == Midnight(DaysFromCivil(2024, 6, 10)) + 7

AggEvents ==
    {AggEvent(title, start, source, v) :
        title \in {x_cw, x_x}, start \in {AggNow + 24, AggNow + 25},
        source \in {S_WA, S_HAMFEST}, v \in {1, 2}}

InitAgg ==
    /\ pc = "dedup"
    /\ now = AggNow
    /\ budget = 0
    /\ r_wa = NoResp /\ r_contest = NoResp /\ r_page = NoResp
    /\ all_events \in SeqsUpTo(AggEvents, MaxEvents)
    /\ failed = {}
    /\ page = 1
    /\ fetches = <<>>
    /\ hf_events = <<>>
    /\ hf_seen = <<>>
    /\ pool = <<>>
    /\ cals = [name \in CalendarNames |-> <<>>]
    /\ written = <<>>
    /\ exit_status = 0 - 1
    /\ FnIdle

NextAgg ==
    \/ DedupStep
    \/ SplitStep
    \/ WriteStep

SpecAgg == InitAgg /\ [][NextAgg]_vars

\* the key of an event: title, start instant, source
KeyOf(e) == <<e.title, e.start, e.source>>

\* the last index of the list that holds an event with the key of e
LastWithKey(events, e) ==
    CHOOSE i \in 1..Len(events) :
        /\ KeyOf(events[i]) = KeyOf(e)
        /\ \A j \in (i + 1)..Len(events) : KeyOf(events[j]) # KeyOf(e)

-----------------------------------------------------------------------------
(* C2: the deduplicated pool holds exactly one event per distinct key       *)
(* (title, start instant, source) of the list, and it is the last event of  *)
(* the list with that key; events differing in title, start or source are   *)
(* all kept, events differing only in other fields collapse.                *)
C2_LastWriteWins ==
    pc \in {"split", "write", "done"} =>
        /\ \A i \in 1..Len(all_events) :
              Cardinality({j \in 1..Len(pool) :
                              KeyOf(pool[j]) = KeyOf(all_events[i])}) = 1
        /\ \A j \in 1..Len(pool) :
              /\ \E i \in 1..Len(all_events) : KeyOf(all_events[i]) = KeyOf(pool[j])
              /\ pool[j] = all_events[LastWithKey(all_events, pool[j])]
        /\ Len(pool) = Cardinality({KeyOf(all_events[i]) : i \in 1..Len(all_events)})

\* a list of three events, the first and last sharing a key and differing in
\* end, url, description and categories, the middle one differing in source
\* only: the pool keeps the last and the middle one
C2_Witness ==
    /\ pc = "split"
    /\ Len(all_events) = 3
    /\ KeyOf(all_events[1]) = KeyOf(all_events[3])
    /\ all_events[1].end # all_events[3].end
    /\ all_events[1].url # all_events[3].url
    /\ all_events[1].categories # all_events[3].categories
    /\ all_events[2].title = all_events[1].title
    /\ all_events[2].start = all_events[1].start
    /\ all_events[2].source # all_events[1].source
    /\ pool = <<all_events[3], all_events[2]>>

-----------------------------------------------------------------------------
(* C3: split_calendars puts every pool event in "all" exactly once, in      *)
(* "hamfests" iff it is labelled hamfest, in "field-day" iff labelled       *)
(* field-day, in "cw" / "phone" / "digital" iff labelled contest and that   *)
(* mode; an event may be in several sets, and every set is a sub-collection *)
(* of "all".                                                                *)

Occurrences(events, e) == Cardinality({i \in 1..Len(events) : events[i] = e})

C3_Partition ==
    pc \in {"write", "done"} =>
        /\ DOMAIN cals = {"all", "cw", "phone", "digital", "hamfests", "field-day"}
        /\ \A name \in DOMAIN cals : \A i \in 1..Len(cals[name]) :
              /\ cals[name][i] \in Range(cals["all"])
              /\ Occurrences(cals[name], cals[name][i]) = 1
        /\ \A i \in 1..Len(pool) :
              LET e == pool[i]
                  labels == Range(e.categories)
              IN  /\ Occurrences(cals["all"], e) = 1
                  /\ e \in Range(cals["hamfests"]) <=> L_hamfest \in labels
                  /\ e \in Range(cals["field-day"]) <=> L_field_day \in labels
                  /\ e \in Range(cals["cw"])
                        <=> (L_contest \in labels /\ L_cw \in labels)
                  /\ e \in Range(cals["phone"])
                        <=> (L_contest \in labels /\ L_phone \in labels)
                  /\ e \in Range(cals["digital"])
                        <=> (L_contest \in labels /\ L_digital \in labels)
        /\ Len(cals["all"]) = Len(pool)

\* a pool with an event in both "cw" and "phone", an event labelled cw but
\* not contest that is in "all" only, and an event in both "hamfests" and
\* "field-day"
C3_Witness ==
    /\ pc = "write"
    /\ \E e \in Range(pool) : e \in Range(cals["cw"]) /\ e \in Range(cals["phone"])
    /\ \E e \in Range(pool) :
          /\ L_cw \in Range(e.categories)
          /\ \A name \in CalendarNames \ {"all"} : e \notin Range(cals[name])
    /\ \E e \in Range(pool) :
          e \in Range(cals["hamfests"]) /\ e \in Range(cals["field-day"])

-----------------------------------------------------------------------------
(* fourth_full_weekend_saturday_of_june step by step, for any year of       *)
(* YearLo..YearHi, followed by the Event add_field_day_fixed builds from it *)

MainIdle ==
    /\ now = AggNow
    /\ budget = 0
    /\ r_wa = NoResp /\ r_contest = NoResp /\ r_page = NoResp
    /\ all_events = <<>>
    /\ failed = {}
    /\ page = 1
    /\ fetches = <<>>
    /\ hf_events = <<>>
    /\ hf_seen = <<>>
    /\ pool = <<>>
    /\ cals = [name \in CalendarNames |-> <<>>]
    /\ written = <<>>
    /\ exit_status = 0 - 1

\* d.replace(day=...)
date_replace_day(days, day) ==
    LET c == CivilFromDays(days) IN DaysFromCivil(c.y, c.m, day)

\* d = date(year, 6, 1)
InitFD ==
    /\ pc = "fd_loop"
    /\ MainIdle
    /\ yr \in YearLo..YearHi
    /\ dd = DaysFromCivil(yr, 6, 1)
    /\ ev = NoValue /\ ev0 = NoValue /\ ics = NoValue /\ got = NoValue
    /\ h = NoValue /\ pieces = NoValue

\* while d.weekday() != 5: d = d.replace(day=d.day + 1)
FDLoopStep ==
    /\ pc = "fd_loop"
    /\ Weekday(dd) # 5
    /\ CivilFromDays(dd).d + 1 <= DaysInMonth(CivilFromDays(dd).y, CivilFromDays(dd).m)
    /\ dd' = date_replace_day(dd, CivilFromDays(dd).d + 1)
    /\ UNCHANGED <<pc, mainVars, htmlVars, ev, ev0, ics, got, yr>>

\* return d + timedelta(weeks=3)
FDReturn ==
    /\ pc = "fd_loop"
    /\ Weekday(dd) = 5
    /\ dd' = dd + 7 * 3
    /\ pc' = "fd_date"
    /\ UNCHANGED <<mainVars, htmlVars, ev, ev0, ics, got, yr>>

\* the loop body of add_field_day_fixed up to tag_field_day(e)
FDEvent ==
    /\ pc = "fd_date"
    /\ ev' = field_day_event(yr)
    /\ pc' = "fd_event"
    /\ UNCHANGED <<mainVars, htmlVars, ev0, ics, got, yr, dd>>

NextFD ==
    \/ FDLoopStep
    \/ FDReturn
    \/ FDEvent

SpecFD == InitFD /\ [][NextFD]_vars

\* 1970-01-03 was a Saturday
IsSaturday(days) == (days - DaysFromCivil(1970, 1, 3)) % 7 = 0

-----------------------------------------------------------------------------
(* C9: the Field Day date of a year is the first Saturday on or after       *)
(* June 1 plus 21 days: a Saturday of June, day 22..28, of that year; the   *)
(* search for the first Saturday stays within June 1..7; the event starts   *)
(* at 00:00 UTC of that date and ends two days later; for 2024 the date is  *)
(* June 22.                                                                 *)
C9_FieldDayRule ==
    /\ pc = "fd_loop" =>
          /\ CivilFromDays(dd).y = yr /\ CivilFromDays(dd).m = 6
          /\ CivilFromDays(dd).d \in 1..7
          /\ \A t \in DaysFromCivil(yr, 6, 1)..(dd - 1) : ~IsSaturday(t)
    /\ pc \in {"fd_date", "fd_event"} =>
        LET c == CivilFromDays(dd)
            june1 == DaysFromCivil(yr, 6, 1)
        IN  /\ c.y = yr /\ c.m = 6 /\ c.d >= 22 /\ c.d <= 28
            /\ IsSaturday(dd)
            /\ \E s \in june1..(june1 + 6) :
                  /\ IsSaturday(s)
                  /\ \A t \in june1..(s - 1) : ~IsSaturday(t)
                  /\ dd = s + 21
            /\ dd = fourth_full_weekend_saturday_of_june(yr)
            /\ (yr = 2024 => c.d = 22)
            /\ (pc = "fd_event" =>
                  /\ ev.start = 24 * dd
                  /\ ev.end = ev.start + 48
                  /\ ev.title = T_ARRL_Field_Day
                  /\ L_field_day \in Range(ev.categories))

\* 2025, where June 1 is a Sunday: the loop steps six times to June 7, and the
\* event covers June 28 and 29
C9_Witness ==
    /\ pc = "fd_event"
    /\ yr = 2025
    /\ CivilFromDays(dd) = [y |-> 2025, m |-> 6, d |-> 28]
    /\ ev.start = Midnight(DaysFromCivil(2025, 6, 28))
    /\ ev.end = Midnight(DaysFromCivil(2025, 6, 30))

-----------------------------------------------------------------------------
(* tag_modes and tag_field_day on any event: the title is up to MaxFrags    *)
(* fragments, the description is absent, empty or one fragment, and the     *)
(* event already carries the labels its parser gave it.                     *)

Fragments ==
    {<<"C">>, <<"W">>, <<"c","w">>, <<"F","i","e","l","d">>, <<"D","a","y">>,
     <<" ">>, <<"s","s","b">>, <<"F","T","8">>, <<"x">>}

TagTitles == {Concat(fs) : fs \in SeqsUpTo(Fragments, MaxFrags)}

TagDescriptions == {None, <<>>} \cup Fragments

TagLabels ==
    {<<L_contest>>, <<L_hamfest>>, <<L_contest, L_cw>>, <<L_field_day, L_phone>>}

InitTag ==
    /\ pc = "tag_modes"
    /\ MainIdle
    /\ \E title \in TagTitles, description \in TagDescriptions, labels \in TagLabels :
          ev0 = [Event(title, AggNow + 24, AggNow + 48, None, description, S_WA)
                    EXCEPT !.categories = labels]
    /\ ev = ev0
    /\ ics = NoValue /\ got = NoValue
    /\ h = NoValue /\ pieces = NoValue
    /\ yr = 0 /\ dd = 0

TagModes ==
    /\ pc = "tag_modes"
    /\ ev' = tag_modes(ev)
    /\ pc' = "tag_field_day"
    /\ UNCHANGED <<mainVars, htmlVars, ev0, ics, got, yr, dd>>

TagFieldDay ==
    /\ pc = "tag_field_day"
    /\ ev' = tag_field_day(ev)
    /\ pc' = "tagged"
    /\ UNCHANGED <<mainVars, htmlVars, ev0, ics, got, yr, dd>>

NextTag ==
    \/ TagModes
    \/ TagFieldDay

SpecTag == InitTag /\ [][NextTag]_vars

\* the four labels of the classifier and their keyword sets
LabelKeywords ==
    {<<L_cw, {<<"C","W">>}>>,
     <<L_phone, {<<"S","S","B">>, <<"P","H","O","N","E">>, <<"A","M">>, <<"F","M">>}>>,
     <<L_digital, {<<"R","T","T","Y">>, <<"F","T","8">>, <<"F","T","4">>,
                   <<"P","S","K">>, <<"D","I","G","I">>,
                   <<"D","I","G","I","T","A","L">>, <<"S","S","T","V">>,
                   <<"J","S","8">>, <<"M","F","S","K">>}>>,
     <<L_field_day, {<<"F","I","E","L","D"," ","D","A","Y">>}>>}

DescriptionText(e) == IF e.description = None THEN <<>> ELSE e.description

\* the labels of after are those of before, in order, followed by each of the
\* four labels that before lacks and whose keyword set matches text, once
Classified(before, after, text) ==
    /\ [after EXCEPT !.categories = before.categories] = before
    /\ Len(after.categories) >= Len(before.categories)
    /\ SubSeq(after.categories, 1, Len(before.categories)) = before.categories
    /\ \A i, j \in 1..Len(after.categories) :
          after.categories[i] = after.categories[j] => i = j
    /\ \A lk \in LabelKeywords :
          lk[1] \in Range(after.categories)
              <=> \/ lk[1] \in Range(before.categories)
                  \/ \E k \in lk[2] : Contains(text, k)
    /\ Range(after.categories)
          \subseteq Range(before.categories) \cup {lk[1] : lk \in LabelKeywords}

-----------------------------------------------------------------------------
(* C10 (amended): after tag_modes and tag_field_day an event carries label  *)
(* cw, phone, digital, field-day exactly when it carried it before or the   *)
(* upper-cased text "title, one space, description" (description empty when *)
(* absent) contains a keyword of the respective set; labels already on the  *)
(* event are kept in place and none is duplicated, and an event matching    *)
(* two keyword sets carries both labels.                                    *)
C10_ClassifyWithSeparator ==
    pc = "tagged" =>
        Classified(ev0, ev, Upper(ev0.title \o <<" ">> \o DescriptionText(ev0)))

\* title "cwField", description "Day", base label contest: the keyword
\* FIELD DAY spans the separator, and the event matches two keyword sets
C10_Witness ==
    /\ pc = "tagged"
    /\ ev0.title = <<"c","w","F","i","e","l","d">>
    /\ ev0.description = <<"D","a","y">>
    /\ ev0.categories = <<L_contest>>
    /\ ev.categories = <<L_contest, L_cw, L_field_day>>

(* C10 as stated: the same with the upper-cased concatenation of title and  *)
(* description, nothing between them.                                       *)
C10_ClassifyConcatenation ==
    pc = "tagged" =>
        Classified(ev0, ev, Upper(ev0.title \o DescriptionText(ev0)))

-----------------------------------------------------------------------------
(* The iCalendar text: build_ics, and the readers unfold_ics and            *)
(* extract_ics_field, on strings of characters.                             *)

CRLF == <<"\r", "\n">>

HexDigit(k) ==
    <<"0","1","2","3","4","5","6","7","8","9","a","b","c","d","e","f">>[k + 1]

\* the text Event.uid hashes
uid_text(e) ==
    e.source \o <<"|">> \o e.title \o <<"|">> \o IsoFormat(e.start) \o <<"|">>
        \o (IF Truthy(e.url) THEN e.url ELSE <<>>)

\* Event.uid: 32 hexadecimal digits and "@hamcal"; the digits stand for those
\* of the SHA-256 digest, which is not computed
uid(e) ==
    [i \in 1..32 |-> HexDigit((Len(uid_text(e)) + i) % 16)] \o <<"@","h","a","m","c","a","l">>

\* dt_to_ics: strftime("%Y%m%dT%H%M%SZ") of a UTC instant
dt_to_ics(t) ==
    LET c == CivilFromDays(DateOf(t))
    IN  Pad4(c.y) \o Pad2(c.m) \o Pad2(c.d) \o <<"T">> \o Pad2(t % 24)
            \o <<"0","0","0","0","Z">>

\* sep.join(parts)
RECURSIVE Join(_, _)
Join(parts, sep) ==
    IF parts = <<>> THEN <<>>
    ELSE IF Len(parts) = 1 THEN parts[1]
    ELSE parts[1] \o sep \o Join(Tail(parts), sep)

\* desc_out of build_ics
desc_out(e) ==
    LET d == Strip(IF Truthy(e.description) THEN e.description ELSE <<>>)
    IN  IF Truthy(e.url) /\ ~Contains(d, e.url)
        THEN (IF Truthy(d) THEN d \o <<"\n", "\n">> ELSE d)
                 \o <<"R","u","l","e","s"," ","&"," ","d","e","t","a","i","l","s",":">> \o <<"\n">> \o e.url
        ELSE d

\* the lines build_ics appends for one event
vevent_lines(e, n) ==
    <<<<"B","E","G","I","N",":","V","E","V","E","N","T">>,
      <<"U","I","D",":">> \o uid(e),
      <<"D","T","S","T","A","M","P",":">> \o dt_to_ics(n),
      <<"D","T","S","T","A","R","T",":">> \o dt_to_ics(e.start),
      <<"D","T","E","N","D",":">> \o dt_to_ics(e.end),
      <<"S","U","M","M","A","R","Y",":">> \o ics_escape(e.title)>>
    \o (IF Truthy(e.url) THEN <<<<"U","R","L",":">> \o ics_escape(e.url)>> ELSE <<>>)
    \o (IF Truthy(desc_out(e))
        THEN <<<<"D","E","S","C","R","I","P","T","I","O","N",":">> \o ics_escape(desc_out(e))>> ELSE <<>>)
    \o (IF Truthy(e.categories)
        THEN <<<<"C","A","T","E","G","O","R","I","E","S",":">> \o ics_escape(Join(e.categories, <<",">>))>>
        ELSE <<>>)
    \o <<<<"E","N","D",":","V","E","V","E","N","T">>>>

RECURSIVE all_vevent_lines(_, _)
all_vevent_lines(events, n) ==
    IF events = <<>> THEN <<>>
    ELSE vevent_lines(Head(events), n) \o all_vevent_lines(Tail(events), n)

\* build_ics, with NOW_UTC = n
build_ics(calendar_name, events, n) ==
    LET lines == <<<<"B","E","G","I","N",":","V","C","A","L","E","N","D","A","R">>,
                   <<"V","E","R","S","I","O","N",":","2",".","0">>,
                   <<"P","R","O","D","I","D",":","-","/","/","H","A","M","C","A","L","/","/","h","a","m","c","a","l","/","/","E","N">>,
                   <<"C","A","L","S","C","A","L","E",":","G","R","E","G","O","R","I","A","N">>,
                   <<"X","-","W","R","-","C","A","L","N","A","M","E",":">> \o ics_escape(calendar_name),
                   <<"X","-","W","R","-","T","I","M","E","Z","O","N","E",":","U","T","C">>>>
                 \o all_vevent_lines(sorted_by_start(events), n)
    IN  Concat([i \in 1..Len(lines) |-> lines[i] \o CRLF])

\* the characters of s at the indices lo..hi that are not in removed
RECURSIVE KeepIndices(_, _, _, _)
KeepIndices(s, lo, hi, removed) ==
    IF lo > hi THEN <<>>
    ELSE IF lo = hi THEN (IF lo \in removed THEN <<>> ELSE <<s[lo]>>)
    ELSE KeepIndices(s, lo, (lo + hi) \div 2, removed)
             \o KeepIndices(s, (lo + hi) \div 2 + 1, hi, removed)

\* unfold_ics: re.sub(r"\r?\n[ \t]", "", ics_text); the matches are the
\* line breaks followed by a space or a tab, with the "\r" before them
unfold_ics(s) ==
    LET breaks == {i \in 1..(Len(s) - 1) : s[i] = "\n" /\ s[i + 1] \in {" ", "\t"}}
        removed == UNION {{i, i + 1} \cup (IF i > 1 /\ s[i - 1] = "\r" THEN {i - 1} ELSE {}) :
                             i \in breaks}
    IN  KeepIndices(s, 1, Len(s), removed)

\* the least index >= i of s that holds a character of stops, or Len(s) + 1
FindFrom(s, i, stops) ==
    LET at == {k \in i..Len(s) : s[k] \in stops}
    IN  IF at = {} THEN Len(s) + 1 ELSE CHOOSE k \in at : \A m \in at : k <= m

\* the match of ^field_name(;[^:]*)?:(.*)$ at index i of s, re.MULTILINE
field_match(s, i, field_name) ==
    LET j == i + Len(field_name)
        c == IF j <= Len(s) /\ s[j] = ";" THEN FindFrom(s, j + 1, {":"}) ELSE j
        e == FindFrom(s, c + 1, {"\n"})
    IN  IF /\ (i = 1 \/ s[i - 1] = "\n")
           /\ j - 1 <= Len(s)
           /\ SubSeq(s, i, j - 1) = field_name
           /\ c <= Len(s)
           /\ s[c] = ":"
        THEN [ok |-> TRUE, group2 |-> SubSeq(s, c + 1, e - 1)]
        ELSE [ok |-> FALSE, group2 |-> <<>>]

\* extract_ics_field
extract_ics_field(vevent, field_name) ==
    LET vevent_u == unfold_ics(vevent)
        hits == {i \in 1..Len(vevent_u) : field_match(vevent_u, i, field_name).ok}
    IN  IF hits = {} THEN None
        ELSE Strip(field_match(vevent_u,
                               CHOOSE i \in hits : \A k \in hits : i <= k,
                               field_name).group2)

\* text.split("BEGIN:VEVENT")[1], with "BEGIN:VEVENT" put back in front
first_vevent(text) ==
    LET mark == <<"B","E","G","I","N",":","V","E","V","E","N","T">>
        at == {i \in 1..(Len(text) - Len(mark) + 1) :
                   SubSeq(text, i, i + Len(mark) - 1) = mark}
        i1 == CHOOSE i \in at : \A k \in at : i <= k
        rest == SubSeq(text, i1 + Len(mark), Len(text))
        nxt == {i \in 1..(Len(rest) - Len(mark) + 1) :
                   SubSeq(rest, i, i + Len(mark) - 1) = mark}
    IN  IF nxt = {} THEN mark \o rest
        ELSE mark \o SubSeq(rest, 1, (CHOOSE i \in nxt : \A k \in nxt : i <= k) - 1)

\* str.split(",")
RECURSIVE SplitComma(_)
SplitComma(s) ==
    LET c == FindFrom(s, 1, {","})
    IN  IF c > Len(s) THEN <<s>>
        ELSE <<SubSeq(s, 1, c - 1)>> \o SplitComma(SubSeq(s, c + 1, Len(s)))

-----------------------------------------------------------------------------
(* One event written by build_ics and read back as ingest_wa7bnm_gcal reads *)
(* a VEVENT block.                                                          *)

RTAlphabet == {"\\", "n", ",", ";", "\n"}

RTTitles == SeqsUpTo(RTAlphabet, MaxLen)

RTLinks == {None} \cup (SeqsUpTo(RTAlphabet \ {"\n"}, 1) \ {<<>>})

RTCategories == {<<>>, <<L_contest>>, <<L_contest, L_cw>>, <<<<"\\">>, <<"n">>>>}

RTCalendarName == <<"H","A","M","C","A","L">>

InitRT ==
    /\ pc = "rt_event"
    /\ MainIdle
    /\ \E title \in RTTitles, link \in RTLinks, labels \in RTCategories :
          ev = [Event(title, AggNow + 24, AggNow + 48, link, None, S_WA)
                   EXCEPT !.categories = labels]
    /\ ev0 = NoValue
    /\ ics = NoValue /\ got = NoValue
    /\ h = NoValue /\ pieces = NoValue
    /\ yr = 0 /\ dd = 0

BuildIcs ==
    /\ pc = "rt_event"
    /\ ics' = build_ics(RTCalendarName, <<ev>>, now)
    /\ pc' = "rt_built"
    /\ UNCHANGED <<mainVars, htmlVars, ev, ev0, got, yr, dd>>

ReadBack ==
    /\ pc = "rt_built"
    /\ LET vevent == first_vevent(ics)
           summary == extract_ics_field(vevent, <<"S","U","M","M","A","R","Y">>)
           url == extract_ics_field(vevent, <<"U","R","L">>)
           categories == extract_ics_field(vevent, <<"C","A","T","E","G","O","R","I","E","S">>)
       IN  got' = [title |-> unfold_ics_text(summary),
                   url |-> IF Truthy(url) THEN unfold_ics_text(url) ELSE None,
                   categories |-> IF Truthy(categories)
                                  THEN Range(SplitComma(unfold_ics_text(categories)))
                                  ELSE {}]
    /\ pc' = "rt_read"
    /\ UNCHANGED <<mainVars, htmlVars, ev, ev0, ics, yr, dd>>

NextRT ==
    \/ BuildIcs
    \/ ReadBack

SpecRT == InitRT /\ [][NextRT]_vars

-----------------------------------------------------------------------------
(* C6: an event encoded with build_ics and read back with extract_ics_field *)
(* and unfold_ics_text has the same title, the same link and the same       *)
(* category set.                                                            *)
C6_RoundTrip ==
    pc = "rt_read" =>
        /\ got.title = ev.title
        /\ got.url = ev.url
        /\ got.categories = Range(ev.categories)

-----------------------------------------------------------------------------
(* strip_html, one re.sub at a time, on strings of characters.              *)

\* whether the literal lit is at index i of s
StartsWith(s, i, lit) ==
    /\ i >= 1
    /\ i + Len(lit) - 1 <= Len(s)
    /\ SubSeq(s, i, i + Len(lit) - 1) = lit

\* the same ignoring letter case (flag i)
StartsWithIgnoreCase(s, i, lit) ==
    /\ i >= 1
    /\ i + Len(lit) - 1 <= Len(s)
    /\ Upper(SubSeq(s, i, i + Len(lit) - 1)) = Upper(lit)

\* the least index >= from where lit is in s, or 0
FirstAt(s, from, lit) ==
    LET at == {k \in from..Len(s) : StartsWith(s, k, lit)}
    IN  IF at = {} THEN 0 ELSE CHOOSE k \in at : \A m \in at : k <= m

\* the text the pattern's closing part matches: r"</\\1>" is the regular
\* expression </ \\ 1 >, a literal backslash followed by the digit 1
ScriptClose == <<"<", "/", "\\", "1", ">">>

\* r"(?is)<(script|style).*?>.*?</\\1>": the index where the match that starts
\* at i ends, or 0 when there is none
match_script(s, i) ==
    LET name_end == IF StartsWithIgnoreCase(s, i, <<"<","s","c","r","i","p","t">>) THEN i + 6
                    ELSE IF StartsWithIgnoreCase(s, i, <<"<","s","t","y","l","e">>) THEN i + 5
                    ELSE 0
        g == FindFrom(s, name_end + 1, {">"})
        t == FirstAt(s, g + 1, ScriptClose)
    IN  IF name_end = 0 \/ g > Len(s) \/ t = 0 THEN 0
        ELSE t + Len(ScriptClose) - 1

\* the least index >= i of s that holds no "s", or Len(s) + 1
RECURSIVE skip_s(_, _)
skip_s(s, i) == IF i <= Len(s) /\ s[i] = "s" THEN skip_s(s, i + 1) ELSE i

\* r"(?s)<br\\s*/?>": the regular expression < b r \\ s* /? >, a literal
\* backslash followed by any number of letters s
match_br(s, i) ==
    LET j == skip_s(s, i + 4)
        k == IF j <= Len(s) /\ s[j] = "/" THEN j + 1 ELSE j
    IN  IF StartsWith(s, i, <<"<", "b", "r", "\\">>) /\ k <= Len(s) /\ s[k] = ">"
        THEN k ELSE 0

\* r"(?s)</p>"
match_p(s, i) == IF StartsWith(s, i, <<"<","/","p",">">>) THEN i + 3 ELSE 0

\* r"(?s)<.*?>"
match_tag(s, i) ==
    LET g == FindFrom(s, i + 1, {">"})
    IN  IF StartsWith(s, i, <<"<">>) /\ g <= Len(s) THEN g ELSE 0

match_end(pattern, s, i) ==
    CASE pattern = "script" -> match_script(s, i)
      [] pattern = "br"     -> match_br(s, i)
      [] pattern = "p"      -> match_p(s, i)
      [] pattern = "tag"    -> match_tag(s, i)

\* re.sub(pattern, repl, s) from index i on: leftmost matches, not overlapping
RECURSIVE re_sub(_, _, _, _)
re_sub(pattern, repl, s, i) ==
    IF i > Len(s) THEN <<>>
    ELSE IF match_end(pattern, s, i) > 0
         THEN repl \o re_sub(pattern, repl, s, match_end(pattern, s, i) + 1)
         ELSE <<s[i]>> \o re_sub(pattern, repl, s, i + 1)

\* html.unescape, for the character references &amp; &lt; &gt;
RECURSIVE html_unescape(_)
html_unescape(s) ==
    IF s = <<>> THEN <<>>
    ELSE IF StartsWith(s, 1, <<"&","a","m","p",";">>)
         THEN <<"&">> \o html_unescape(SubSeq(s, 6, Len(s)))
    ELSE IF StartsWith(s, 1, <<"&","l","t",";">>)
         THEN <<"<">> \o html_unescape(SubSeq(s, 5, Len(s)))
    ELSE IF StartsWith(s, 1, <<"&","g","t",";">>)
         THEN <<">">> \o html_unescape(SubSeq(s, 5, Len(s)))
    ELSE <<Head(s)>> \o html_unescape(Tail(s))

\* strip_html
strip_html(text) ==
    html_unescape(
        re_sub("tag", <<>>,
            re_sub("p", <<"\n">>,
                re_sub("br", <<"\n">>,
                    re_sub("script", <<>>, text, 1), 1), 1), 1))

-----------------------------------------------------------------------------
(* A page made of up to MaxPieces pieces: text, newlines, line-break and    *)
(* paragraph-close markers, other tags, script and style elements.          *)

P_a == <<"a">>
P_amp == <<"a","&","a","m","p",";","b">>
P_newline == <<"\n">>
P_br == <<"<","b","r",">">>
P_br_slash == <<"<","b","r","/",">">>
P_p_close == <<"<","/","p",">">>
P_i == <<"<","i",">">>
P_tag_backslash == <<"<", "b", "r", "\\", "s", "/", ">">>
P_tag_close1 == <<"<", "/", "\\", "1", ">">>
P_script == <<"<","s","c","r","i","p","t",">","x","<","/","s","c","r","i","p","t",">">>
P_style == <<"<","S","T","Y","L","E"," ","t","y","p","e","=","t",">","y","<","/","S","T","Y","L","E",">">>

HtmlPieces ==
    {P_a, P_amp, P_newline, P_br, P_br_slash, P_p_close, P_i, P_tag_backslash,
     P_tag_close1, P_script, P_style}

InitStrip ==
    /\ pc = "sh_script"
    /\ MainIdle
    /\ ev = NoValue /\ ev0 = NoValue /\ ics = NoValue /\ got = NoValue
    /\ yr = 0 /\ dd = 0
    /\ pieces \in SeqsUpTo(HtmlPieces, MaxPieces)
    /\ h = Concat(pieces)

\* h = re.sub(r"(?is)<(script|style).*?>.*?</\\1>", "", h)
StripScripts ==
    /\ pc = "sh_script"
    /\ h' = re_sub("script", <<>>, h, 1)
    /\ pc' = "sh_br"
    /\ UNCHANGED <<mainVars, ev, ev0, ics, got, yr, dd, pieces>>

\* h = re.sub(r"(?s)<br\\s*/?>", "\\n", h)
StripBr ==
    /\ pc = "sh_br"
    /\ h' = re_sub("br", <<"\n">>, h, 1)
    /\ pc' = "sh_p"
    /\ UNCHANGED <<mainVars, ev, ev0, ics, got, yr, dd, pieces>>

\* h = re.sub(r"(?s)</p>", "\\n", h)
StripP ==
    /\ pc = "sh_p"
    /\ h' = re_sub("p", <<"\n">>, h, 1)
    /\ pc' = "sh_tag"
    /\ UNCHANGED <<mainVars, ev, ev0, ics, got, yr, dd, pieces>>

\* h = re.sub(r"(?s)<.*?>", "", h)
StripTags ==
    /\ pc = "sh_tag"
    /\ h' = re_sub("tag", <<>>, h, 1)
    /\ pc' = "sh_unescape"
    /\ UNCHANGED <<mainVars, ev, ev0, ics, got, yr, dd, pieces>>

\* return html.unescape(h)
StripReturn ==
    /\ pc = "sh_unescape"
    /\ h' = html_unescape(h)
    /\ pc' = "sh_done"
    /\ UNCHANGED <<mainVars, ev, ev0, ics, got, yr, dd, pieces>>

NextStrip ==
    \/ StripScripts
    \/ StripBr
    \/ StripP
    \/ StripTags
    \/ StripReturn

SpecStrip == InitStrip /\ [][NextStrip]_vars

\* the plain text of one piece: an element of script or style is dropped with
\* its content, a line-break or paragraph-close marker is a newline, any
\* other tag is dropped, text stays with its character references decoded
PlainText(p) ==
    CASE p \in {P_script, P_style} -> <<>>
      [] p \in {P_br, P_br_slash, P_p_close} -> <<"\n">>
      [] p \in {P_i, P_tag_backslash, P_tag_close1} -> <<>>
      [] p = P_amp -> <<"a", "&", "b">>
      [] OTHER -> p

-----------------------------------------------------------------------------
(* C11: for every page made of text, newlines, <br> / <br/> markers, </p>   *)
(* markers, other tags and script / style elements, strip_html returns the  *)
(* text with the script and style elements removed together with their      *)
(* content, every line-break and paragraph-close marker replaced by a       *)
(* newline, and all other tags removed.                                     *)
C11_StripMatchesReference ==
    pc = "sh_done" =>
        /\ h = Concat([i \in 1..Len(pieces) |-> PlainText(pieces[i])])
        /\ h = strip_html(Concat(pieces))

-----------------------------------------------------------------------------
(* The identity strings of the events of one calendar: main from its        *)
(* de-dupe step on, for events of the WA7BNM feed whose SUMMARY and URL are *)
(* any text, the separator "|" included.                                    *)

UidStarts == {AggNow + 24, AggNow + 25}

\* texts without and with the separator
UidTexts ==
    {x_x} \cup {Join(<<x_x, IsoFormat(s), x_x>>, <<"|">>) : s \in UidStarts}

UidEvents ==
    {add_category(Event(title, start, start + 1, url, None, source), L_contest) :
        title \in UidTexts, start \in UidStarts, url \in {None} \cup UidTexts,
        source \in {S_WA, S_CONTEST}}

InitUid ==
    /\ pc = "dedup"
    /\ now = AggNow
    /\ budget = 0
    /\ r_wa = NoResp /\ r_contest = NoResp /\ r_page = NoResp
    /\ all_events \in SeqsUpTo(UidEvents, MaxUidEvents)
    /\ failed = {}
    /\ page = 1
    /\ fetches = <<>>
    /\ hf_events = <<>>
    /\ hf_seen = <<>>
    /\ pool = <<>>
    /\ cals = [name \in CalendarNames |-> <<>>]
    /\ written = <<>>
    /\ exit_status = 0 - 1
    /\ FnIdle

NextUid ==
    \/ DedupStep
    \/ SplitStep
    \/ WriteStep

SpecUid == InitUid /\ [][NextUid]_vars

\* the tuple the identity of an event is derived from
IdentityTuple(e) ==
    <<e.source, e.title, e.start, IF e.url = None THEN <<>> ELSE e.url>>

-----------------------------------------------------------------------------
(* C12: in each of the six calendars written after de-dupe no two events    *)
(* have the same identity string source|title|start|url, and events of the  *)
(* pool with distinct (source, title, start, url) have distinct identity    *)
(* strings, whatever the titles and urls, ones with "|" included.           *)
C12_UniqueIdentity ==
    pc = "done" =>
        /\ \A name \in DOMAIN written :
              \A i, j \in 1..Len(written[name]) :
                  i # j => uid_text(written[name][i]) # uid_text(written[name][j])
        /\ \A i, j \in 1..Len(pool) :
              IdentityTuple(pool[i]) # IdentityTuple(pool[j])
                  => uid_text(pool[i]) # uid_text(pool[j])

=============================================================================
